---- MODULE Spec2Model ----
(***************************************************************************)
(* A model of isoapp (src/app.py): the two-tier persistence adapter         *)
(* (PostgreSQL row "default" of table app_state, or the file state.json),   *)
(* the OpenRouteService client helpers and the request handlers.            *)
(*                                                                          *)
(* Spec     : the persistence functions called one after another.          *)
(* SpecConc : state requests running concurrently in worker threads.       *)
(* SpecOrs  : the routing helpers and the /api/overlap, /api/houses        *)
(*            handlers.                                                     *)
(***************************************************************************)
EXTENDS Integers, Sequences, FiniteSets, TLC

VARIABLES
    has_DATABASE_URL,   \* bool((os.getenv("DATABASE_URL") or "").strip())
    _pg_conn,           \* the cached connection: "None", "open" or "closed"
    schema_done,        \* CREATE TABLE IF NOT EXISTS completed on the cached connection
    table_exists,       \* the database holds table app_state
    row,                \* app_state.data of row id='default', or Absent
    file_exists,        \* os.path.exists(STATE_FILE)
    file,               \* the text of state.json, a sequence of JSON tokens
    _last_storage,      \* "none", "file" or "postgres"
    _last_db_error,     \* "None", "DATABASE_URL not set" or "exc" (repr(e))
    call,               \* the last persistence call: its name, argument, outcome
    last_write,         \* the last save_state/clear_state call
    threads,            \* SpecConc: each request thread's position and locals
    ORS_API_KEY,        \* os.getenv("ORS_API_KEY"): a string, or NoStr when unset
    req                 \* SpecOrs: the routing request, what the service answers, the response

pvars == <<has_DATABASE_URL, _pg_conn, schema_done, table_exists, row,
           file_exists, file, _last_storage, _last_db_error>>
gvars == <<call, last_write>>
vars == <<pvars, gvars, threads, ORS_API_KEY, req>>

-----------------------------------------------------------------------------
(* Python / JSON values.  Every value is a record of one shape; a dict is   *)
(* the set of its <<key, value>> items (keys unique), a str carries its     *)
(* text as a sequence of tokens.                                            *)

PyDict(items) == [ty |-> "dict", items |-> items, text |-> <<>>]
PyStr(text)   == [ty |-> "str",  items |-> {},    text |-> text]
PyNum(tok)    == [ty |-> "num",  items |-> {},    text |-> <<tok>>]
PyNone        == [ty |-> "null", items |-> {},    text |-> <<>>]
PyList        == [ty |-> "list", items |-> {},    text |-> <<>>]
EmptyDict     == PyDict({})

\* A string is the sequence of its characters; NoStr stands for None.
NoStr == <<"None">>
OrEmpty(x) == IF x = NoStr THEN <<>> ELSE x

RECURSIVE lstrip(_)
lstrip(x) == IF x # <<>> /\ Head(x) = " " THEN lstrip(Tail(x)) ELSE x

RECURSIVE rstrip(_)
rstrip(x) == IF x # <<>> /\ x[Len(x)] = " " THEN rstrip(SubSeq(x, 1, Len(x) - 1)) ELSE x

\* str.strip()
strip(x) == rstrip(lstrip(x))

\* Markers that are not Python values.
Absent          == [ty |-> "absent", items |-> {}, text |-> <<>>]
Raised          == [ty |-> "raised", items |-> {}, text |-> <<>>]
Void            == [ty |-> "void",   items |-> {}, text |-> <<>>]
JSONDecodeError == [ty |-> "error",  items |-> {}, text |-> <<>>]

isinstance_dict(x) == x.ty = "dict"

\* Python truth value of a JSON value (the "or {}" of load_state).
Truthy(x) ==
    CASE x.ty = "dict" -> x.items # {}
      [] x.ty = "str"  -> x.text # <<>>
      [] x.ty = "num"  -> x.text # <<"0">>
      [] OTHER         -> FALSE

KeyOrder == <<"a", "b">>
Keys == {KeyOrder[i] : i \in 1..Len(KeyOrder)}
NumTokens == {"0", "1", "2"}

ValueOf(items, k) == CHOOSE v \in NumTokens : <<k, v>> \in items

RECURSIVE DumpFrom(_, _, _)
DumpFrom(items, i, first) ==
    IF i > Len(KeyOrder) THEN <<>>
    ELSE IF \E v \in NumTokens : <<KeyOrder[i], v>> \in items
         THEN (IF first THEN <<>> ELSE <<",">>)
              \o <<KeyOrder[i], ":", ValueOf(items, KeyOrder[i])>>
              \o DumpFrom(items, i + 1, FALSE)
         ELSE DumpFrom(items, i + 1, first)

\* json.dump / json.dumps of a dict (the only values the program serialises).
json_dumps(x) == <<"{">> \o DumpFrom(x.items, 1, TRUE) \o <<"}">>

\* The members between the braces: key : value (, key : value)*
MembersOk(inner) ==
    /\ Len(inner) % 4 = 3
    /\ \A j \in 1..Len(inner) :
          CASE j % 4 = 1 -> inner[j] \in Keys
            [] j % 4 = 2 -> inner[j] = ":"
            [] j % 4 = 3 -> inner[j] \in NumTokens
            [] OTHER     -> inner[j] = ","

\* A repeated key keeps its last value, as in Python.
MembersOf(inner) ==
    {<<inner[j], inner[j + 2]>> : j \in
        {i \in 1..Len(inner) :
            /\ i % 4 = 1
            /\ \A i2 \in 1..Len(inner) :
                  (i2 % 4 = 1 /\ i2 > i) => inner[i2] # inner[i]}}

\* json.loads / json.load: the value a text decodes to, or JSONDecodeError.
json_loads(t) ==
    IF t = <<"null">> THEN PyNone
    ELSE IF Len(t) = 1 /\ t[1] \in NumTokens THEN PyNum(t[1])
    ELSE IF t = <<"[", "]">> THEN PyList
    ELSE IF Len(t) >= 2 /\ t[1] = "{" /\ t[Len(t)] = "}"
         THEN LET inner == SubSeq(t, 2, Len(t) - 1) IN
              IF inner = <<>> THEN EmptyDict
              ELSE IF MembersOk(inner) THEN PyDict(MembersOf(inner))
              ELSE JSONDecodeError
    ELSE JSONDecodeError

\* _ensure_dict with the str branch returning the string undecoded.
ensure_dict_no_decode(x) ==
    IF x.ty = "null" THEN EmptyDict
    ELSE IF isinstance_dict(x) \/ x.ty = "str" THEN x
    ELSE EmptyDict

_ensure_dict(x) ==
    IF x.ty = "null" THEN EmptyDict
    ELSE IF isinstance_dict(x) THEN x
    ELSE IF x.ty = "str"
         THEN LET v == json_loads(x.text) IN
              IF v = JSONDecodeError THEN EmptyDict
              ELSE IF isinstance_dict(v) THEN v ELSE EmptyDict
    ELSE EmptyDict

\* Jsonb(state) sent to the server and stored: serialised, then parsed.
Jsonb(state) == json_loads(json_dumps(state))

-----------------------------------------------------------------------------
(* The values the model draws from.                                         *)

Da   == PyDict({<<"a", "1">>})
Dab  == PyDict({<<"a", "2">>, <<"b", "1">>})

\* Arguments of save_state: objects and non-objects.
SaveArgs == {EmptyDict, Da, Dab, PyList}

\* Rows an earlier deployment may have left (see _ensure_dict's docstring).
LegacyRows == {PyStr(json_dumps(Dab)), PyStr(<<"null">>), PyStr(<<"{">>), PyNone, PyList}

\* Files an earlier run may have left.
LegacyFiles == {json_dumps(Da), <<"null">>, <<"{", "a">>}

ConnectOutcomes == {"ok", "raise"}
\* A statement that raises leaves the connection object as it is; a broken
\* link turns it closed afterwards (ConnectionLost).
StmtOutcomes == {"ok", "raise"}
FileOutcomes == {"ok", "raise"}
\* open(STATE_FILE, "w") truncates; json.dump may fail after it.
WriteOutcomes == {"ok", "open_raise", "dump_raise"}

-----------------------------------------------------------------------------
(* _get_pg_conn: what it returns and what it leaves behind, given how the  *)
(* connect and the CREATE TABLE go this time.                               *)

_get_pg_conn(co, cr) ==
    IF ~has_DATABASE_URL
    THEN [ret |-> FALSE, conn |-> _pg_conn, sch |-> schema_done, tbl |-> table_exists,
          storage |-> "file", err |-> "DATABASE_URL not set", path |-> "no_url"]
    ELSE IF _pg_conn = "None" \/ _pg_conn = "closed"
    THEN IF co = "raise"
         THEN [ret |-> FALSE, conn |-> _pg_conn, sch |-> schema_done, tbl |-> table_exists,
               storage |-> "file", err |-> "exc", path |-> "connect_raise"]
         ELSE IF cr = "ok"
         THEN [ret |-> TRUE, conn |-> "open", sch |-> TRUE, tbl |-> TRUE,
               storage |-> "postgres", err |-> "None", path |-> "connected"]
         \* _pg_conn was assigned at the connect, before the CREATE TABLE raised
         ELSE [ret |-> FALSE, conn |-> "open", sch |-> FALSE, tbl |-> table_exists,
               storage |-> "file", err |-> "exc", path |-> "create_raise"]
    ELSE [ret |-> TRUE, conn |-> _pg_conn, sch |-> schema_done, tbl |-> table_exists,
          storage |-> "postgres", err |-> "None", path |-> "cached"]

\* A statement on app_state succeeds when the server runs it and the table is there.
StmtOk(g, q) == q = "ok" /\ g.tbl

\* The file branch of load_state.
load_file(fr) ==
    IF ~file_exists THEN EmptyDict
    ELSE IF fr = "raise" THEN EmptyDict
    ELSE LET v == json_loads(file) IN
         IF v = JSONDecodeError THEN EmptyDict
         ELSE LET data == IF Truthy(v) THEN v ELSE EmptyDict IN
              IF isinstance_dict(data) THEN data ELSE EmptyDict

\* The SELECT branch of load_state.
load_row(g, q) ==
    IF ~StmtOk(g, q) THEN Raised
    ELSE IF row = Absent THEN EmptyDict ELSE _ensure_dict(row)

\* save_state's first statement.
coerce_state(state) == IF isinstance_dict(state) THEN state ELSE EmptyDict

\* save_state's fallback write with the write left out.
written_file_lost(st, fw) == [exists |-> file_exists, text |-> file]

\* The file after save_state's fallback write of st.  open(..., "w") truncates
\* the file; a json.dump that raises leaves it without the document.
written_file(st, fw) ==
    CASE fw = "ok"         -> [exists |-> TRUE, text |-> json_dumps(st)]
      [] fw = "open_raise" -> [exists |-> file_exists, text |-> file]
      [] OTHER             -> [exists |-> TRUE, text |-> <<>>]

\* The outcomes drawn for a call are those of the steps the call runs: a step
\* that does not run has no outcome to fail with.
StepsRun(co, cr, q) ==
    /\ (co # "ok" => has_DATABASE_URL /\ _pg_conn # "open")
    /\ (cr # "ok" => has_DATABASE_URL /\ _pg_conn # "open" /\ co = "ok")
    /\ (q # "ok" => _get_pg_conn(co, cr).ret)

(* load_state() *)
load_state ==
    \E co \in ConnectOutcomes, cr \in StmtOutcomes, q \in StmtOutcomes, fr \in FileOutcomes :
        LET g == _get_pg_conn(co, cr)
            result == IF g.ret THEN load_row(g, q) ELSE load_file(fr)
        IN  /\ StepsRun(co, cr, q)
            /\ (fr # "ok" => ~g.ret /\ file_exists)
            /\ _pg_conn' = g.conn
            /\ schema_done' = g.sch
            /\ table_exists' = g.tbl
            /\ _last_storage' = g.storage
            /\ _last_db_error' = g.err
            /\ call' = [op |-> "load", arg |-> Void, ret |-> result, path |-> g.path, fs |-> fr]
            /\ UNCHANGED <<has_DATABASE_URL, row, file_exists, file, last_write, threads, ORS_API_KEY, req>>

(* save_state(state) *)
save_state ==
    \E state \in SaveArgs, co \in ConnectOutcomes, cr \in StmtOutcomes,
       q \in StmtOutcomes, fw \in WriteOutcomes :
        LET st == coerce_state(state)
            g == _get_pg_conn(co, cr)
            inserted == g.ret /\ StmtOk(g, q)
        IN  LET w == written_file(st, fw)
                summary == [op |-> "save", arg |-> state, ret |-> Void, path |-> g.path,
                            fs |-> fw]
            IN  /\ StepsRun(co, cr, q)
                /\ (fw # "ok" => ~inserted)
                /\ _pg_conn' = g.conn
                /\ schema_done' = g.sch
                /\ table_exists' = g.tbl
                /\ row' = IF inserted THEN Jsonb(st) ELSE row
                /\ file_exists' = IF inserted THEN file_exists ELSE w.exists
                /\ file' = IF inserted THEN file ELSE w.text
                /\ _last_storage' = IF inserted THEN "postgres"
                                    ELSE IF fw = "ok" THEN "file" ELSE "none"
                /\ _last_db_error' = IF inserted THEN "None"
                                     ELSE IF fw # "ok" \/ g.ret THEN "exc" ELSE g.err
                /\ call' = summary
                /\ last_write' = summary
                /\ UNCHANGED <<has_DATABASE_URL, threads, ORS_API_KEY, req>>

(* clear_state() *)
clear_state ==
    \E co \in ConnectOutcomes, cr \in StmtOutcomes, q \in StmtOutcomes, rm \in FileOutcomes :
        LET g == _get_pg_conn(co, cr)
            deleted == g.ret /\ StmtOk(g, q)
            removed == ~g.ret /\ file_exists /\ rm = "ok"
            summary == [op |-> "clear", arg |-> Void,
                        ret |-> IF g.ret /\ ~deleted THEN Raised ELSE Void,
                        path |-> g.path, fs |-> rm]
        IN  /\ StepsRun(co, cr, q)
            /\ (rm # "ok" => ~g.ret /\ file_exists)
            /\ _pg_conn' = g.conn
            /\ schema_done' = g.sch
            /\ table_exists' = g.tbl
            /\ row' = IF deleted THEN Absent ELSE row
            /\ file_exists' = IF removed THEN FALSE ELSE file_exists
            /\ file' = IF removed THEN <<>> ELSE file
            /\ _last_storage' = g.storage
            /\ _last_db_error' = g.err
            /\ call' = summary
            /\ last_write' = summary
            /\ UNCHANGED <<has_DATABASE_URL, threads, ORS_API_KEY, req>>

(* The server or the network closes the cached connection between calls. *)
ConnectionLost ==
    /\ _pg_conn = "open"
    /\ _pg_conn' = "closed"
    /\ UNCHANGED <<has_DATABASE_URL, schema_done, table_exists, row, file_exists, file,
                   _last_storage, _last_db_error, gvars, threads, ORS_API_KEY, req>>

NoCall == [op |-> "none", arg |-> Void, ret |-> Void, path |-> "none", fs |-> "ok"]

InitPersistence ==
    /\ has_DATABASE_URL \in BOOLEAN
    /\ _pg_conn = "None"
    /\ schema_done = FALSE
    /\ table_exists \in IF has_DATABASE_URL THEN BOOLEAN ELSE {FALSE}
    /\ row \in IF table_exists THEN {Absent} \cup LegacyRows ELSE {Absent}
    /\ file_exists \in BOOLEAN
    /\ file \in IF file_exists THEN LegacyFiles ELSE {<<>>}
    /\ _last_storage = "none"
    /\ _last_db_error = "None"
    /\ call = NoCall
    /\ last_write = NoCall

Init ==
    /\ InitPersistence
    /\ threads = <<>>
    /\ ORS_API_KEY = NoStr
    /\ req = <<>>

Next == load_state \/ save_state \/ clear_state \/ ConnectionLost

Spec == Init /\ [][Next]_vars

-----------------------------------------------------------------------------
(* Properties of the persistence adapter (Spec).                            *)

ConnReturned(c) == c.path \in {"connected", "cached"}

\* The stored value x is, or decodes to, a JSON object.
HoldsObject(x) ==
    \/ x.ty = "dict"
    \/ x.ty = "str" /\ json_loads(x.text).ty = "dict"

\* C1: a load_state() that follows save_state(s), s an object, with no other
\* save or clear in between, returns s, whatever the relational backend did
\* at either call (the file operations of both calls having succeeded and
\* load_state having returned).
C1_RoundTrip ==
    (/\ call.op = "load" /\ call.ret # Raised /\ call.fs = "ok"
     /\ last_write.op = "save" /\ last_write.fs = "ok"
     /\ isinstance_dict(last_write.arg))
    => call.ret = last_write.arg

C3_NeverRaises ==
    call.op \in {"load", "clear"} => call.ret # Raised

\* C4: a load_state() that follows a clear_state() that returned, with no
\* save in between, returns the empty object (the file operations of both
\* calls having succeeded and load_state having returned).
C4_ClearThenLoadEmpty ==
    (/\ call.op = "load" /\ call.ret # Raised /\ call.fs = "ok"
     /\ last_write.op = "clear" /\ last_write.ret = Void /\ last_write.fs = "ok")
    => call.ret = EmptyDict

\* C5: what load_state returns is a JSON object; it is {} when the stored row
\* or file is absent or holds no object; save_state stores {} when given a
\* non-object.
C5_AlwaysObject ==
    /\ (call.op = "load" /\ call.ret # Raised) => isinstance_dict(call.ret)
    /\ (call.op = "load" /\ call.ret # Raised /\ ConnReturned(call) /\ ~HoldsObject(row))
       => call.ret = EmptyDict
    /\ (/\ call.op = "load" /\ ~ConnReturned(call)
        /\ (~file_exists \/ json_loads(file).ty # "dict"))
       => call.ret = EmptyDict
    /\ (call.op = "save" /\ ~isinstance_dict(last_write.arg))
       => /\ _last_storage = "postgres" => row = EmptyDict
          /\ _last_storage = "file" => file = json_dumps(EmptyDict)

C5_Witness ==
    /\ call.op = "load" /\ ConnReturned(call)
    /\ row.ty = "str" /\ ~HoldsObject(row)
    /\ call.ret = EmptyDict

\* C9: whenever _get_pg_conn returned a connection (and reported "postgres"),
\* CREATE TABLE IF NOT EXISTS has completed on that connection.
C9_SchemaOnReturnedConn ==
    ConnReturned(call) => schema_done

-----------------------------------------------------------------------------
(* The OpenRouteService helpers.  Each returns a record: the HTTP status    *)
(* its caller ends with (200 when it returns), the kind of fault, the       *)
(* requests it issued to the routing service, in order, and its value.      *)

MaxFeatures == 2
MaxHouses == 2

Ok(log, value) == [status |-> 200, fault |-> "none", log |-> log, value |-> value]
Fault(status, fault, log) == [status |-> status, fault |-> fault, log |-> log, value |-> <<>>]

\* _require_ors with the strip() left out.
require_ors_unstripped(key) == OrEmpty(key) # <<>>

\* _require_ors: TRUE when it returns the key, FALSE when it raises the 500.
_require_ors(key) == strip(OrEmpty(key)) # <<>>

\* ors_headers(): the headers are built when _require_ors returns.
ors_headers == _require_ors(ORS_API_KEY)

(* geocode_one(address); resp is the service's answer to the GET *)
geocode_one(address, resp) ==
    IF ~_require_ors(ORS_API_KEY) THEN Fault(500, "config", <<>>)
    ELSE IF ~resp.ok THEN Fault(500, "upstream", <<"geocode/search">>)
    ELSE IF resp.feats = "none" THEN Fault(400, "not_found", <<"geocode/search">>)
    ELSE Ok(<<"geocode/search">>,
            [lonlat |-> resp.lonlat,
             label |-> IF resp.feats = "labelled" THEN resp.label ELSE address])

(* ors_autocomplete(q) *)
ors_autocomplete(q, resp) ==
    IF ~_require_ors(ORS_API_KEY) THEN Fault(500, "config", <<>>)
    ELSE IF ~resp.ok THEN Fault(500, "upstream", <<"geocode/autocomplete">>)
    ELSE Ok(<<"geocode/autocomplete">>,
            IF resp.feats = "none" THEN <<>>
            ELSE <<[label |-> IF resp.feats = "labelled" THEN resp.label ELSE NoStr,
                    lonlat |-> resp.lonlat]>>)

(* ors_isochrone(lonlat, minutes, profile): ors_headers() is evaluated, and *)
(* raises, before requests.post is called                                   *)
ors_isochrone(lonlat, minutes, profile, resp) ==
    IF ~ors_headers THEN Fault(500, "config", <<>>)
    ELSE IF ~resp.ok THEN Fault(500, "upstream", <<"isochrones">>)
    ELSE Ok(<<"isochrones">>, resp.features)

(* ors_matrix(from_lonlat, to_lonlats, profile); durations are whole        *)
(* seconds or NoDur (None), on which int(round(d)) changes nothing          *)
ors_matrix(from_lonlat, to_lonlats, profile, resp) ==
    IF ~ors_headers THEN Fault(500, "config", <<>>)
    ELSE IF ~resp.ok THEN Fault(500, "upstream", <<"matrix">>)
    ELSE Ok(<<"matrix">>, resp.durations)

(* api_autocomplete(q) *)
api_autocomplete(q, resp) ==
    IF Len(strip(OrEmpty(q))) < 1 THEN Ok(<<>>, <<>>)
    ELSE LET r == ors_autocomplete(strip(OrEmpty(q)), resp) IN
         IF r.status # 200 THEN r
         ELSE Ok(r.log, [i \in 1..Len(r.value) |-> [label |-> r.value[i].label]])

\* The colouring of api_overlap done with setdefault, keeping a colour the
\* service sent.
tagged_keep(f, color) ==
    [f EXCEPT !.color = IF f.color = "absent" THEN color ELSE f.color, !.fillOpacity = "0.10"]

\* api_overlap: f["properties"]["color"] = color; ["fillOpacity"] = 0.10
tagged(f, color) == [f EXCEPT !.color = color, !.fillOpacity = "0.10"]

(* api_overlap(payload); e holds the service's answers *)
api_overlap(payload, e) ==
    LET address1 == strip(OrEmpty(payload.address1))
        address2 == strip(OrEmpty(payload.address2))
        minutes == IF payload.minutes = 0 THEN 60 ELSE payload.minutes
        profile == "driving-car"
        p1 == geocode_one(address1, e.g1)
        p2 == geocode_one(address2, e.g2)
        iso1 == ors_isochrone(p1.value.lonlat, minutes, profile, e.iso1)
        iso2 == ors_isochrone(p2.value.lonlat, minutes, profile, e.iso2)
    IN  IF address1 = <<>> \/ address2 = <<>> THEN Fault(400, "bad_input", <<>>)
        ELSE IF p1.status # 200 THEN p1
        ELSE IF p2.status # 200 THEN [p2 EXCEPT !.log = p1.log \o p2.log]
        ELSE IF iso1.status # 200 THEN [iso1 EXCEPT !.log = p1.log \o p2.log \o iso1.log]
        ELSE IF iso2.status # 200
             THEN [iso2 EXCEPT !.log = p1.log \o p2.log \o iso1.log \o iso2.log]
        ELSE Ok(p1.log \o p2.log \o iso1.log \o iso2.log,
                [features |->
                     (IF iso1.value # <<>> THEN <<tagged(iso1.value[1], "#2563eb")>> ELSE <<>>)
                     \o (IF iso2.value # <<>> THEN <<tagged(iso2.value[1], "#0a7a2f")>> ELSE <<>>),
                 meta |-> [a |-> p1.value, b |-> p2.value,
                           minutes |-> minutes, profile |-> profile]])

\* int(round(sec / 60)): Python rounds a half to the even neighbour.
round_minutes(sec) ==
    LET q == sec \div 60
        r == sec % 60
    IN  IF r < 30 THEN q
        ELSE IF r > 30 THEN q + 1
        ELSE IF q % 2 = 0 THEN q ELSE q + 1

NoDur == -1
minutes_or_none(durs, i) ==
    IF i <= Len(durs) /\ durs[i] # NoDur THEN round_minutes(durs[i]) ELSE NoDur

\* The loop of api_houses from house i on: the entries resolved so far, the
\* requests issued, and the fault that ended it, if any.
RECURSIVE resolve_houses(_, _, _, _)
resolve_houses(houses, g, i, acc) ==
    IF i > Len(houses) THEN acc
    ELSE LET h == houses[i]
             addr == strip(OrEmpty(h.address))
         IN  IF h.id = "" \/ addr = <<>> THEN resolve_houses(houses, g, i + 1, acc)
             ELSE LET r == geocode_one(addr, g[i]) IN
                  IF r.status # 200
                  THEN [acc EXCEPT !.status = r.status, !.fault = r.fault,
                                   !.log = acc.log \o r.log]
                  ELSE resolve_houses(houses, g, i + 1,
                           [acc EXCEPT !.log = acc.log \o r.log,
                                       !.value = acc.value \o
                                           <<[id |-> h.id, address_input |-> addr,
                                              address_found |-> r.value.label,
                                              lonlat |-> r.value.lonlat]>>])

\* The check of api_houses with "or" between the two isinstance tests.
refs_are_lists_either(payload) == payload.a_lonlat = "list" \/ payload.b_lonlat = "list"

\* api_houses: isinstance(a_lonlat, list) and isinstance(b_lonlat, list)
refs_are_lists(payload) == payload.a_lonlat = "list" /\ payload.b_lonlat = "list"

\* api_houses: houses = payload.get("houses") or []
houses_or_empty(payload) == IF payload.houses_kind = "none" THEN <<>> ELSE payload.houses

(* api_houses(payload); payload.houses_kind tells a list from None (or a    *)
(* missing key) and from any other value                                    *)
api_houses(payload, e) ==
    LET houses == houses_or_empty(payload)
        resolved == resolve_houses(houses, e.g, 1, Ok(<<>>, <<>>))
        to_lonlats == [i \in 1..Len(resolved.value) |-> resolved.value[i].lonlat]
        durA == ors_matrix(payload.a_lonlat, to_lonlats, "driving-car", e.mA)
        durB == ors_matrix(payload.b_lonlat, to_lonlats, "driving-car", e.mB)
    IN  IF payload.houses_kind = "other" \/ houses = <<>> THEN Ok(<<>>, <<>>)
        ELSE IF ~refs_are_lists(payload)
        THEN Fault(400, "bad_input", <<>>)
        ELSE IF resolved.status # 200 THEN resolved
        ELSE IF resolved.value = <<>> THEN Ok(resolved.log, <<>>)
        ELSE IF durA.status # 200 THEN [durA EXCEPT !.log = resolved.log \o durA.log]
        ELSE IF durB.status # 200
             THEN [durB EXCEPT !.log = resolved.log \o durA.log \o durB.log]
        ELSE Ok(resolved.log \o durA.log \o durB.log,
                [i \in 1..Len(resolved.value) |->
                    [house |-> resolved.value[i],
                     fromA_minutes |-> minutes_or_none(durA.value, i),
                     fromB_minutes |-> minutes_or_none(durB.value, i)]])

-----------------------------------------------------------------------------
(* The routing requests: the key, a request and the service's answers are   *)
(* drawn at the start; one action runs the helper or handler on them.       *)

KeySettings == {NoStr, <<>>, <<" ">>, <<"k">>}
TextInputs == {NoStr, <<" ">>, <<" ", "x">>}

NoAnswer == [ok |-> FALSE, feats |-> "none", lonlat |-> "P", label |-> <<"L">>]
GeoAnswers == {NoAnswer} \cup
    {[ok |-> TRUE, feats |-> f, lonlat |-> "P", label |-> <<"L">>] :
        f \in {"none", "labelled", "unlabelled"}}

SeqsUpTo(S, n) == UNION {[1..k -> S] : k \in 0..n}

\* A feature of an isochrone answer; the service may send its own colour.
Features == [geom : {"polygon"}, color : {"absent", "#ff0000"}, fillOpacity : {"absent"}]
NoIso == [ok |-> FALSE, features |-> <<>>]
IsoAnswers == {NoIso} \cup
    {[ok |-> TRUE, features |-> f] : f \in SeqsUpTo(Features, MaxFeatures)}

NoMatrix == [ok |-> FALSE, durations |-> <<>>]
MatrixAnswers == {NoMatrix} \cup
    {[ok |-> TRUE, durations |-> d] : d \in {<<>>, <<605, NoDur>>, <<1200, 90>>}}

HouseEntries == {[id |-> "h1", address |-> <<"A">>],
                 [id |-> "", address |-> <<"A">>],
                 [id |-> "h2", address |-> <<" ">>]}
HouseValid(h) == h.id # "" /\ strip(OrEmpty(h.address)) # <<>>

HousesPayloads ==
    {[houses_kind |-> k, houses |-> <<>>, a_lonlat |-> a, b_lonlat |-> b] :
        k \in {"none", "other"}, a \in {"None", "list"}, b \in {"None", "list"}}
    \cup
    {[houses_kind |-> "list", houses |-> h, a_lonlat |-> a, b_lonlat |-> b] :
        h \in SeqsUpTo(HouseEntries, MaxHouses), a \in {"None", "list"}, b \in {"None", "list"}}

KeyOk == strip(OrEmpty(ORS_API_KEY)) # <<>>

\* An answer is drawn only for a request the service receives.
AnswersIf(sent, S, none) == IF sent THEN S ELSE {none}

HelperRequests ==
    {[kind |-> k, text |-> t, e |-> a] :
        k \in {"geocode_one", "ors_autocomplete", "api_autocomplete"},
        t \in TextInputs, a \in AnswersIf(KeyOk, GeoAnswers, NoAnswer)}
    \cup {[kind |-> "ors_isochrone", e |-> a] : a \in AnswersIf(KeyOk, IsoAnswers, NoIso)}
    \cup {[kind |-> "ors_matrix", e |-> a] : a \in AnswersIf(KeyOk, MatrixAnswers, NoMatrix)}

Found(g) == g.ok /\ g.feats # "none"

OverlapRequests ==
    UNION {
        LET sent == KeyOk /\ strip(OrEmpty(a1)) # <<>> /\ strip(OrEmpty(a2)) # <<>> IN
        UNION {
            {[kind |-> "api_overlap",
              payload |-> [address1 |-> a1, address2 |-> a2, minutes |-> m],
              e |-> [g1 |-> g1, g2 |-> g2, iso1 |-> i1, iso2 |-> i2]] :
                g2 \in AnswersIf(Found(g1), GeoAnswers, NoAnswer),
                i2 \in AnswersIf(Found(g1) /\ i1.ok, IsoAnswers, NoIso)}
            : g1 \in AnswersIf(sent, GeoAnswers, NoAnswer),
              i1 \in AnswersIf(sent, IsoAnswers, NoIso)}
        : a1 \in TextInputs, a2 \in TextInputs, m \in {0, 30}}

HousesRequests ==
    UNION {
        LET sent == KeyOk /\ p.a_lonlat = "list" /\ p.b_lonlat = "list" IN
        UNION {
            {[kind |-> "api_houses", payload |-> p, e |-> [g |-> g, mA |-> mA, mB |-> mB]] :
                g \in {x \in [1..Len(p.houses) -> GeoAnswers] :
                         \A i \in 1..Len(p.houses) :
                            x[i] # NoAnswer => sent /\ HouseValid(p.houses[i])},
                mB \in AnswersIf(mA.ok, MatrixAnswers, NoMatrix)}
            : mA \in AnswersIf(sent /\ \E i \in 1..Len(p.houses) : HouseValid(p.houses[i]),
                               MatrixAnswers, NoMatrix)}
        : p \in HousesPayloads}

Pending(kind) == req.kind = kind /\ req.phase = "pending"

Respond(r) ==
    /\ req' = [req EXCEPT !.phase = "done", !.resp = r]
    /\ UNCHANGED <<pvars, gvars, threads, ORS_API_KEY>>

GeocodeOne == Pending("geocode_one") /\ Respond(geocode_one(req.text, req.e))
OrsAutocomplete == Pending("ors_autocomplete") /\ Respond(ors_autocomplete(req.text, req.e))
OrsIsochrone == Pending("ors_isochrone") /\ Respond(ors_isochrone("P", 60, "driving-car", req.e))
OrsMatrix == Pending("ors_matrix") /\ Respond(ors_matrix("P", <<"P">>, "driving-car", req.e))
ApiAutocomplete == Pending("api_autocomplete") /\ Respond(api_autocomplete(req.text, req.e))
ApiOverlap == Pending("api_overlap") /\ Respond(api_overlap(req.payload, req.e))
ApiHouses == Pending("api_houses") /\ Respond(api_houses(req.payload, req.e))

WithPhase(r) == [x \in DOMAIN r \cup {"phase", "resp"} |->
                    IF x = "phase" THEN "pending"
                    ELSE IF x = "resp" THEN Ok(<<>>, <<>>)
                    ELSE r[x]]

InitOrs ==
    /\ has_DATABASE_URL = FALSE
    /\ _pg_conn = "None"
    /\ schema_done = FALSE
    /\ table_exists = FALSE
    /\ row = Absent
    /\ file_exists = FALSE
    /\ file = <<>>
    /\ _last_storage = "none"
    /\ _last_db_error = "None"
    /\ call = NoCall
    /\ last_write = NoCall
    /\ threads = <<>>
    /\ ORS_API_KEY \in KeySettings
    /\ req \in {WithPhase(r) : r \in HelperRequests \cup OverlapRequests \cup HousesRequests}

NextOrs ==
    \/ GeocodeOne \/ OrsAutocomplete \/ OrsIsochrone \/ OrsMatrix
    \/ ApiAutocomplete \/ ApiOverlap \/ ApiHouses

SpecOrs == InitOrs /\ [][NextOrs]_vars

-----------------------------------------------------------------------------
(* Properties of the routing helpers and handlers (SpecOrs).                *)

Done(kind) == req.kind = kind /\ req.phase = "done"

RefsMissing == req.payload.a_lonlat # "list" \/ req.payload.b_lonlat # "list"
BadInput400 ==
    req.resp.status = 400 /\ req.resp.fault = "bad_input" /\ req.resp.log = <<>>

\* C6 as stated: /api/houses ends in the 400 bad-input fault, with no geocode
\* or matrix request issued, whenever a_lonlat or b_lonlat is not a list,
\* whatever the houses value is.
C6_AsStated ==
    (Done("api_houses") /\ RefsMissing) => BadInput400

\* C6 amended: with a_lonlat or b_lonlat not a list, /api/houses ends in the
\* 400 bad-input fault when houses is a non-empty list (also one whose
\* entries all lack id or address), and answers 200 with an empty houses list
\* when houses is empty, absent or no list; no request is issued either way.
C6_BadInputUnlessNoHouses ==
    (Done("api_houses") /\ RefsMissing) =>
        IF req.payload.houses_kind = "list" /\ req.payload.houses # <<>>
        THEN BadInput400
        ELSE req.resp.status = 200 /\ req.resp.value = <<>> /\ req.resp.log = <<>>

C6_Witness ==
    /\ Done("api_houses") /\ RefsMissing
    /\ req.payload.houses_kind = "list" /\ Len(req.payload.houses) = MaxHouses
    /\ \A i \in 1..Len(req.payload.houses) : ~HouseValid(req.payload.houses[i])
    /\ BadInput400

KeyBlank == ORS_API_KEY = NoStr \/ \A i \in 1..Len(ORS_API_KEY) : ORS_API_KEY[i] = " "
ConfigFault500 ==
    req.resp.status = 500 /\ req.resp.fault = "config" /\ req.resp.log = <<>>
NonBlank(x) == x # NoStr /\ \E i \in 1..Len(x) : x[i] # " "

\* C7: with ORS_API_KEY unset or blank, geocode_one, ors_autocomplete,
\* ors_isochrone and ors_matrix each end in the 500 configuration fault with no
\* request issued; an /api/overlap or /api/houses request then issues none
\* either, and ends in that fault once it reaches its first routing operation.
C7_NoRequestWithoutKey ==
    (req.phase = "done" /\ KeyBlank) =>
        /\ req.kind \in {"geocode_one", "ors_autocomplete", "ors_isochrone", "ors_matrix"}
           => ConfigFault500
        /\ req.resp.log = <<>>
        /\ (/\ req.kind = "api_overlap"
            /\ NonBlank(req.payload.address1) /\ NonBlank(req.payload.address2))
           => ConfigFault500
        /\ (/\ req.kind = "api_houses" /\ ~RefsMissing
            /\ req.payload.houses_kind = "list"
            /\ \E i \in 1..Len(req.payload.houses) : HouseValid(req.payload.houses[i]))
           => ConfigFault500

C7_Witness ==
    /\ Done("api_overlap") /\ ORS_API_KEY = <<" ">>
    /\ NonBlank(req.payload.address1) /\ NonBlank(req.payload.address2)
    /\ ConfigFault500

\* C8 as stated: a successful /api/overlap returns at most 2 features, the
\* first coloured #2563eb and the second #0a7a2f.
C8_AsStated ==
    (Done("api_overlap") /\ req.resp.status = 200) =>
        LET f == req.resp.value.features IN
        /\ Len(f) <= 2
        /\ Len(f) >= 1 => f[1].color = "#2563eb"
        /\ Len(f) >= 2 => f[2].color = "#0a7a2f"

\* C8 amended: a successful /api/overlap returns, in this order, the first
\* feature of A's isochrone coloured #2563eb when A's answer has a feature,
\* and the first feature of B's isochrone coloured #0a7a2f when B's has one;
\* a side without a feature is omitted, so with only B's polygon the first
\* feature is the #0a7a2f one.
C8_ColoursBySide ==
    (Done("api_overlap") /\ req.resp.status = 200) =>
        LET f == req.resp.value.features
            nA == IF req.e.iso1.features # <<>> THEN 1 ELSE 0
            nB == IF req.e.iso2.features # <<>> THEN 1 ELSE 0
        IN  /\ Len(f) = nA + nB
            /\ Len(f) <= 2
            /\ nA = 1 => f[1].color = "#2563eb" /\ f[1].geom = req.e.iso1.features[1].geom
            /\ nB = 1 => f[nA + 1].color = "#0a7a2f"
                         /\ f[nA + 1].geom = req.e.iso2.features[1].geom

C8_Witness ==
    /\ Done("api_overlap") /\ req.resp.status = 200
    /\ req.e.iso1.features = <<>>
    /\ Len(req.e.iso2.features) = MaxFeatures
    /\ req.e.iso2.features[1].color = "#ff0000"
    /\ Len(req.resp.value.features) = 1
    /\ req.resp.value.features[1].color = "#0a7a2f"

-----------------------------------------------------------------------------
(* Concurrent state requests.  The handlers are plain "def" routes, which   *)
(* the framework runs in worker threads; each thread runs one of            *)
(* api_get_state, api_post_state, api_delete_state, a step at a time: the   *)
(* globals and the file are shared, nothing is locked.  The database and    *)
(* the file system are healthy here: only the interleaving varies.          *)

NumThreads == 2
Threads == 1..NumThreads

ThreadOps ==
    {[op |-> "get", arg |-> Void], [op |-> "clear", arg |-> Void],
     [op |-> "set", arg |-> Da], [op |-> "set", arg |-> Dab]}

\* What load_state would return from the stores as they are.
Persisted ==
    IF has_DATABASE_URL
    THEN (IF row = Absent THEN EmptyDict ELSE _ensure_dict(row))
    ELSE load_file("ok")

At(t, pc) == threads[t].pc = pc
Goto(t, pc) == threads' = [threads EXCEPT ![t].pc = pc]

\* Bytes written at offset 0 over a file that may by now be longer.
Overlay(written, old) ==
    IF Len(old) > Len(written)
    THEN written \o SubSeq(old, Len(written) + 1, Len(old))
    ELSE written

(* _get_pg_conn up to the test of the cached connection (lines 66-78) *)
TGetPgConn(t) ==
    /\ At(t, "start")
    /\ IF ~has_DATABASE_URL
       THEN /\ _last_storage' = "file"
            /\ _last_db_error' = "DATABASE_URL not set"
            /\ Goto(t, "file")
       ELSE IF _pg_conn = "None" \/ _pg_conn = "closed"
       THEN /\ Goto(t, "connect")
            /\ UNCHANGED <<_last_storage, _last_db_error>>
       ELSE /\ _last_storage' = "postgres"
            /\ _last_db_error' = "None"
            /\ Goto(t, "statement")
    /\ UNCHANGED <<has_DATABASE_URL, _pg_conn, schema_done, table_exists, row,
                   file_exists, file, gvars, ORS_API_KEY, req>>

(* _pg_conn = psycopg.connect(...) (lines 79-80) *)
TConnect(t) ==
    /\ At(t, "connect")
    /\ _pg_conn' = "open"
    /\ schema_done' = FALSE
    /\ Goto(t, "create")
    /\ UNCHANGED <<has_DATABASE_URL, table_exists, row, file_exists, file,
                   _last_storage, _last_db_error, gvars, ORS_API_KEY, req>>

(* CREATE TABLE IF NOT EXISTS on the global connection, then lines 93-95 *)
TCreateTable(t) ==
    /\ At(t, "create")
    /\ table_exists' = TRUE
    /\ schema_done' = TRUE
    /\ _last_storage' = "postgres"
    /\ _last_db_error' = "None"
    /\ Goto(t, "statement")
    /\ UNCHANGED <<has_DATABASE_URL, _pg_conn, row, file_exists, file,
                   gvars, ORS_API_KEY, req>>

(* The SELECT, INSERT or DELETE; psycopg serialises the statements of one   *)
(* connection, the server runs each atomically                              *)
TStatement(t) ==
    /\ At(t, "statement")
    /\ CASE threads[t].op = "get" ->
              /\ threads' = [threads EXCEPT ![t].pc = "respond", ![t].ret = Persisted]
              /\ UNCHANGED <<row, _last_storage, _last_db_error>>
         [] threads[t].op = "set" ->
              /\ row' = Jsonb(coerce_state(threads[t].arg))
              /\ _last_storage' = "postgres"
              /\ _last_db_error' = "None"
              /\ Goto(t, "respond")
         [] OTHER ->
              /\ row' = Absent
              /\ Goto(t, "respond")
              /\ UNCHANGED <<_last_storage, _last_db_error>>
    /\ UNCHANGED <<has_DATABASE_URL, _pg_conn, schema_done, table_exists,
                   file_exists, file, gvars, ORS_API_KEY, req>>

(* The file branch begins: os.path.exists(STATE_FILE) in load_state and     *)
(* clear_state, open(STATE_FILE, "w") in save_state, which truncates        *)
TFileBegin(t) ==
    /\ At(t, "file")
    /\ CASE threads[t].op = "set" ->
              /\ file_exists' = TRUE
              /\ file' = <<>>
              /\ threads' = [threads EXCEPT ![t].pc = "dump", ![t].unlinked = FALSE]
         [] threads[t].op = "get" /\ ~file_exists ->
              /\ threads' = [threads EXCEPT ![t].pc = "respond", ![t].ret = EmptyDict]
              /\ UNCHANGED <<file_exists, file>>
         [] threads[t].op = "get" /\ file_exists ->
              /\ Goto(t, "read")
              /\ UNCHANGED <<file_exists, file>>
         [] threads[t].op = "clear" /\ ~file_exists ->
              /\ Goto(t, "respond")
              /\ UNCHANGED <<file_exists, file>>
         [] OTHER ->
              /\ Goto(t, "remove")
              /\ UNCHANGED <<file_exists, file>>
    /\ UNCHANGED <<has_DATABASE_URL, _pg_conn, schema_done, table_exists, row,
                   _last_storage, _last_db_error, gvars, ORS_API_KEY, req>>

(* load_state: open, json.load; any exception gives {} *)
TRead(t) ==
    /\ At(t, "read")
    /\ threads' = [threads EXCEPT ![t].pc = "respond", ![t].ret = load_file("ok")]
    /\ UNCHANGED <<pvars, gvars, ORS_API_KEY, req>>

(* save_state: json.dump and the close that flushes it; the document goes   *)
(* to offset 0 of the file the thread opened, which clear_state may have    *)
(* unlinked since                                                           *)
TDump(t) ==
    /\ At(t, "dump")
    /\ IF threads[t].unlinked
       THEN UNCHANGED <<file_exists, file>>
       ELSE /\ file' = Overlay(json_dumps(coerce_state(threads[t].arg)), file)
            /\ UNCHANGED file_exists
    /\ _last_storage' = "file"
    /\ Goto(t, "respond")
    /\ UNCHANGED <<has_DATABASE_URL, _pg_conn, schema_done, table_exists, row,
                   _last_db_error, gvars, ORS_API_KEY, req>>

(* clear_state: os.remove; a file already gone raises, which is passed over *)
TRemove(t) ==
    /\ At(t, "remove")
    /\ file_exists' = FALSE
    /\ file' = <<>>
    /\ threads' = [u \in Threads |->
                      IF u = t THEN [threads[u] EXCEPT !.pc = "respond"]
                      ELSE IF threads[u].pc = "dump" THEN [threads[u] EXCEPT !.unlinked = TRUE]
                      ELSE threads[u]]
    /\ UNCHANGED <<has_DATABASE_URL, _pg_conn, schema_done, table_exists, row,
                   _last_storage, _last_db_error, gvars, ORS_API_KEY, req>>

(* The handler builds its response, reading the diagnostic globals *)
TRespond(t) ==
    /\ At(t, "respond")
    /\ threads' = [threads EXCEPT ![t].pc = "done", ![t].debug = _last_storage]
    /\ UNCHANGED <<pvars, gvars, ORS_API_KEY, req>>

InitConc ==
    /\ has_DATABASE_URL \in BOOLEAN
    /\ _pg_conn = "None"
    /\ schema_done = FALSE
    /\ table_exists = has_DATABASE_URL
    /\ row \in IF has_DATABASE_URL THEN {Absent, Da} ELSE {Absent}
    /\ file_exists \in IF has_DATABASE_URL THEN {FALSE} ELSE BOOLEAN
    /\ file = IF file_exists THEN json_dumps(Da) ELSE <<>>
    /\ _last_storage = "none"
    /\ _last_db_error = "None"
    /\ call = NoCall
    /\ last_write = NoCall
    /\ ORS_API_KEY = NoStr
    /\ req = <<>>
    /\ \E ops \in [Threads -> ThreadOps] :
          threads = [t \in Threads |->
                        [op |-> ops[t].op, arg |-> ops[t].arg, pc |-> "start",
                         ret |-> Void, unlinked |-> FALSE, debug |-> "none",
                         before |-> Persisted]]

NextConc ==
    \E t \in Threads :
        \/ TGetPgConn(t) \/ TConnect(t) \/ TCreateTable(t) \/ TStatement(t)
        \/ TFileBegin(t) \/ TRead(t) \/ TDump(t) \/ TRemove(t) \/ TRespond(t)

SpecConc == InitConc /\ [][NextConc]_vars

SavedPayloads == {threads[t].arg : t \in {u \in Threads : threads[u].op = "set"}}
NoClearRan == \A t \in Threads : threads[t].op # "clear"

\* C10: under every interleaving, when no clear ran, a finished load_state
\* has returned the blob persisted before the requests or the payload of one
\* of the saves, and once all requests have finished the persisted blob is
\* the payload of one of the saves.
C10_NoCorruption ==
    NoClearRan =>
        /\ \A t \in Threads :
              (threads[t].op = "get" /\ threads[t].pc = "done")
              => threads[t].ret \in {threads[t].before} \cup SavedPayloads
        /\ ((\A t \in Threads : threads[t].pc = "done") /\ SavedPayloads # {})
           => Persisted \in SavedPayloads

====
